---- MODULE Spec2Model ----
(***************************************************************************)
(* Model of web-hw-02.py: the contact book (Field / Phone / Birthday /     *)
(* Record / AddressBook), the upcoming-birthday query and the command      *)
(* handlers wrapped by input_error.                                        *)
(*                                                                         *)
(* Texts that the code inspects character by character (phone numbers,     *)
(* birthday texts, the "days" argument) are sequences of Latin-1 code      *)
(* points.  Names are opaque keys and are modelled as strings.  A Python   *)
(* exception leaving a call is recorded in last.exc, the value returned    *)
(* in last.ret.  The dict of the AddressBook is a sequence of entries in   *)
(* insertion order.                                                        *)
(***************************************************************************)
EXTENDS Integers, Sequences, FiniteSets, TLC

VARIABLES book, pre, last, prev

vars == <<book, pre, last, prev>>

(***************************************************************************)
(* Bounds of the model.                                                    *)
(***************************************************************************)
\* most phones a record holds in the specification of one record
MaxPhones == 3

\* most phones a record holds in the specification of the book
MaxBookPhones == 1

(***************************************************************************)
(* Texts.                                                                  *)
(***************************************************************************)
Rep(c, n) == [i \in 1..n |-> c]

\* str.isdigit on Latin-1: "0".."9" and the superscripts 2, 3, 1
\* (U+00B2, U+00B3, U+00B9).
DigitChars == (48..57) \cup {178, 179, 185}

\* the characters "0".."9"
DecimalChars == 48..57

str_isdigit(s) == Len(s) > 0 /\ \A i \in 1..Len(s) : s[i] \in DigitChars

\* Phone texts: "1111111111", "2222222222", ten superscript twos, nine
\* digits, nine digits and a letter.
P1 == Rep(49, 10)
P2 == Rep(50, 10)
PSup == Rep(178, 10)
PShort == Rep(49, 9)
PAlpha == Rep(49, 9) \o <<97>>

\* The phone texts offered to the methods of the single record.
PhoneTexts == {P1, P2, PShort}

\* The phone texts offered to the calls on the book.
BookPhoneTexts == {P1, PSup, PAlpha}

(***************************************************************************)
(* Field classes.                                                          *)
(***************************************************************************)
None == <<>>

MsgTenDigits == <<"The number must be 10 digits long">>

MsgNotFound(phone) == <<"'", phone, "' not found">>

\* Phone.__init__ raises ValueError unless this holds.
PhoneOk(value) == ~(Len(value) # 10 \/ ~str_isdigit(value))

(***************************************************************************)
(* Calendar dates (datetime.date) as <<year, month, day>>, with the        *)
(* proleptic Gregorian ordinal that date arithmetic and comparison use.    *)
(***************************************************************************)
IsLeap(y) == y % 4 = 0 /\ (y % 100 # 0 \/ y % 400 = 0)

DaysInMonth(y, m) ==
    IF m = 2 THEN (IF IsLeap(y) THEN 29 ELSE 28)
    ELSE IF m \in {4, 6, 9, 11} THEN 30 ELSE 31

\* the date constructor raises ValueError unless this holds
DateValid(y, m, d) ==
    /\ y \in 1..9999
    /\ m \in 1..12
    /\ d >= 1
    /\ d <= DaysInMonth(y, m)

DaysBeforeYear(y) ==
    (y - 1) * 365 + ((y - 1) \div 4) - ((y - 1) \div 100) + ((y - 1) \div 400)

DaysBeforeMonth(y, m) ==
    LET cum == <<0, 31, 59, 90, 120, 151, 181, 212, 243, 273, 304, 334>>
    IN  cum[m] + (IF m > 2 /\ IsLeap(y) THEN 1 ELSE 0)

\* date.toordinal
Ordinal(date) == DaysBeforeYear(date[1]) + DaysBeforeMonth(date[1], date[2]) + date[3]

\* date.fromordinal, as the standard library computes it
FromOrdinal(ord) ==
    LET n0 == ord - 1
        n400 == n0 \div 146097
        r400 == n0 % 146097
        n100 == r400 \div 36524
        r100 == r400 % 36524
        n4 == r100 \div 1461
        r4 == r100 % 1461
        n1 == r4 \div 365
        n == r4 % 365
        year == n400 * 400 + 1 + n100 * 100 + n4 * 4 + n1
        guess == (n + 50) \div 32
        month == IF DaysBeforeMonth(year, guess) > n THEN guess - 1 ELSE guess
    IN  IF n1 = 4 \/ n100 = 4
        THEN <<year - 1, 12, 31>>
        ELSE <<year, month, n - DaysBeforeMonth(year, month) + 1>>

\* date.weekday: Monday is 0, Saturday 5, Sunday 6
Weekday(ord) == (ord + 6) % 7

\* two decimal digits, zero padded
Digits2(n) == <<48 + (n \div 10), 48 + (n % 10)>>

\* the decimal digits of n >= 0, without padding (%Y of the C library)
RECURSIVE Digits(_)
Digits(n) == IF n < 10 THEN <<48 + n>> ELSE Digits(n \div 10) \o <<48 + (n % 10)>>

\* date.strftime('%d.%m.%Y')
strftime(date) == Digits2(date[3]) \o <<46>> \o Digits2(date[2]) \o <<46>> \o Digits(date[1])

\* date + timedelta raises OverflowError unless the sum is a date from
\* 0001-01-01 to 9999-12-31
DateInRange(ord) == ord >= 1 /\ ord <= 3652059

\* timedelta(days) raises OverflowError unless this holds
TimedeltaOk(days) == days >= 0 - 999999999 /\ days <= 999999999

\* A Python int: one that a C int holds (-2^31 .. 2^31 - 1) with its value,
\* or one that a C int does not hold, of which only the sign is kept.
PyInt(v) == [c_int |-> TRUE, neg |-> v < 0, val |-> v]

TooLarge(neg) == [c_int |-> FALSE, neg |-> neg, val |-> 0]

(***************************************************************************)
(* Birthday: datetime.strptime(value, '%d.%m.%Y').date()                   *)
(***************************************************************************)
MsgDateFormat == <<"Invalid date format. Use DD.MM.YYYY">>

IsDecimal(c) == c \in 48..57

\* %d: 3[0-1] | [1-2]\d | 0[1-9] | [1-9] | " "[1-9]
DayPart(t) ==
    \/ /\ Len(t) = 2
       /\ \/ t[1] = 51 /\ t[2] \in {48, 49}
          \/ t[1] \in {49, 50} /\ IsDecimal(t[2])
          \/ t[1] \in {48, 32} /\ t[2] \in 49..57
    \/ Len(t) = 1 /\ t[1] \in 49..57

\* %m: 1[0-2] | 0[1-9] | [1-9]
MonthPart(t) ==
    \/ /\ Len(t) = 2
       /\ \/ t[1] = 49 /\ t[2] \in {48, 49, 50}
          \/ t[1] = 48 /\ t[2] \in 49..57
    \/ Len(t) = 1 /\ t[1] \in 49..57

\* %Y: \d\d\d\d
YearPart(t) == Len(t) = 4 /\ \A i \in 1..4 : IsDecimal(t[i])

\* int() of a matched part; the space of " 5" is skipped
RECURSIVE PartValue(_)
PartValue(t) ==
    IF t = <<>> THEN 0
    ELSE IF t[Len(t)] = 32 THEN 0
    ELSE PartValue(SubSeq(t, 1, Len(t) - 1)) * 10 + (t[Len(t)] - 48)

DotsAt(t) == {i \in 1..Len(t) : t[i] = 46}

\* the parsed date, or None when strptime or the date constructor raises
strptime(value) ==
    IF Cardinality(DotsAt(value)) # 2 THEN None
    ELSE LET i == CHOOSE k \in DotsAt(value) : \A l \in DotsAt(value) : k <= l
             j == CHOOSE k \in DotsAt(value) : \A l \in DotsAt(value) : l <= k
             dd == SubSeq(value, 1, i - 1)
             mm == SubSeq(value, i + 1, j - 1)
             yy == SubSeq(value, j + 1, Len(value))
         IN  IF /\ DayPart(dd)
                /\ MonthPart(mm)
                /\ YearPart(yy)
                /\ DateValid(PartValue(yy), PartValue(mm), PartValue(dd))
             THEN <<PartValue(yy), PartValue(mm), PartValue(dd)>>
             ELSE None

\* Birthday.__init__: the stored date, or ValueError
Birthday(value) ==
    IF strptime(value) # None
    THEN [value |-> strptime(value), exc |-> "", msg |-> None]
    ELSE [value |-> None, exc |-> "ValueError", msg |-> MsgDateFormat]

(***************************************************************************)
(* Record.                                                                 *)
(***************************************************************************)
Record(name) == [name |-> name, phones |-> <<>>, birthday |-> None]

\* index of the first entry of phones whose value is phone, 0 if none
FirstIndex(phones, phone) ==
    IF \E i \in 1..Len(phones) : phones[i] = phone
    THEN CHOOSE i \in 1..Len(phones) :
             /\ phones[i] = phone
             /\ \A j \in 1..(i - 1) : phones[j] # phone
    ELSE 0

RemoveAt(s, i) == [j \in 1..(Len(s) - 1) |-> IF j < i THEN s[j] ELSE s[j + 1]]

\* Record.find_phone: the first matching entry or None
find_phone(phones, phone) ==
    IF FirstIndex(phones, phone) = 0 THEN None ELSE <<phone>>

\* Results of the Record methods: the phones after the call, the exception
\* that left the call ("" if none) and its message.
Result(phones, exc, msg) == [phones |-> phones, exc |-> exc, msg |-> msg]

add_phone_front(phones, phone) ==
    IF PhoneOk(phone)
    THEN Result(<<phone>> \o phones, "", None)
    ELSE Result(phones, "ValueError", MsgTenDigits)

\* Record.add_phone
add_phone(phones, phone) ==
    IF PhoneOk(phone)
    THEN Result(Append(phones, phone), "", None)
    ELSE Result(phones, "ValueError", MsgTenDigits)

remove_phone_all(phones, phone) ==
    IF FirstIndex(phones, phone) # 0
    THEN Result(SelectSeq(phones, LAMBDA x : x # phone), "", None)
    ELSE Result(phones, "ValueError", MsgNotFound(phone))

\* Record.remove_phone
remove_phone(phones, phone) ==
    IF FirstIndex(phones, phone) # 0
    THEN Result(RemoveAt(phones, FirstIndex(phones, phone)), "", None)
    ELSE Result(phones, "ValueError", MsgNotFound(phone))

\* Record.edit_phone: the old phone is removed before the new one is made
edit_phone(phones, old_phone, new_phone) ==
    IF find_phone(phones, old_phone) # None
    THEN add_phone(remove_phone(phones, old_phone).phones, new_phone)
    ELSE Result(phones, "ValueError", MsgNotFound(old_phone))

\* Record.add_birthday: the birthday after the call and the exception
Record_add_birthday(rec, birthday) ==
    IF Birthday(birthday).exc = ""
    THEN [rec |-> [rec EXCEPT !.birthday = Birthday(birthday).value],
          exc |-> "", msg |-> None]
    ELSE [rec |-> rec, exc |-> "ValueError", msg |-> MsgDateFormat]

(***************************************************************************)
(* AddressBook: self.data, a dict, as the sequence of its items in         *)
(* insertion order.                                                        *)
(***************************************************************************)
Entry(key, rec) == [key |-> key, rec |-> rec]

Keys(data) == {data[i].key : i \in 1..Len(data)}

IndexOf(data, name) ==
    IF name \in Keys(data)
    THEN CHOOSE i \in 1..Len(data) : data[i].key = name
    ELSE 0

add_record_append(data, record) == Append(data, Entry(record.name, record))

\* AddressBook.add_record: self.data[record.name.value] = record
add_record(data, record) ==
    IF IndexOf(data, record.name) # 0
    THEN [data EXCEPT ![IndexOf(data, record.name)] = Entry(record.name, record)]
    ELSE Append(data, Entry(record.name, record))

\* AddressBook.find: self.data.get(name); None or the record
find(data, name) ==
    IF IndexOf(data, name) = 0 THEN None ELSE <<data[IndexOf(data, name)].rec>>

delete_first(data, name) ==
    IF IndexOf(data, name) = 0
    THEN [data |-> data, exc |-> "KeyError"]
    ELSE [data |-> Tail(data), exc |-> ""]

\* AddressBook.delete: del self.data[name]
delete(data, name) ==
    IF IndexOf(data, name) = 0
    THEN [data |-> data, exc |-> "KeyError"]
    ELSE [data |-> RemoveAt(data, IndexOf(data, name)), exc |-> ""]

\* The record of an existing key is mutated in place.
Mutate(data, name, rec) == [data EXCEPT ![IndexOf(data, name)].rec = rec]

PhonesOf(data, name) == data[IndexOf(data, name)].rec.phones

(***************************************************************************)
(* Calls.  Each action is one call on the book or on a record held by the  *)
(* book; pre is the book before the call, last the call and its outcome.   *)
(***************************************************************************)
Call(op, args, exc, ret) == [op |-> op, args |-> args, exc |-> exc, ret |-> ret]

\* the commands of main; an exception that leaves one of them ends main
Commands == {"add", "change", "add-birthday", "birthdays"}

Running == ~(last.op \in Commands /\ last.exc # "")

Returned(op, args, exc, ret) ==
    /\ Running
    /\ pre' = book
    /\ last' = Call(op, args, exc, ret)

NoCall == Call("init", <<>>, "", None)

NoHistory == [call |-> NoCall, pre |-> <<>>]

\* book.find(n).add_phone(p)
CallAddPhone(n, p, cap) ==
    /\ find(book, n) # None
    /\ LET r == add_phone(PhonesOf(book, n), p) IN
       /\ Len(r.phones) <= cap
       /\ book' = Mutate(book, n, [find(book, n)[1] EXCEPT !.phones = r.phones])
       /\ Returned("add_phone", <<n, p>>, r.exc, r.msg)

\* book.find(n).remove_phone(p)
CallRemovePhone(n, p) ==
    /\ find(book, n) # None
    /\ LET r == remove_phone(PhonesOf(book, n), p) IN
       /\ book' = Mutate(book, n, [find(book, n)[1] EXCEPT !.phones = r.phones])
       /\ Returned("remove_phone", <<n, p>>, r.exc, r.msg)

\* book.find(n).edit_phone(old, new)
CallEditPhone(n, old, new) ==
    /\ find(book, n) # None
    /\ LET r == edit_phone(PhonesOf(book, n), old, new) IN
       /\ book' = Mutate(book, n, [find(book, n)[1] EXCEPT !.phones = r.phones])
       /\ Returned("edit_phone", <<n, old, new>>, r.exc, r.msg)

\* book.find(n).find_phone(p)
CallFindPhone(n, p) ==
    /\ find(book, n) # None
    /\ book' = book
    /\ Returned("find_phone", <<n, p>>, "", find_phone(PhonesOf(book, n), p))

\* book.find(n).add_birthday(text)
CallAddBirthday(n, text) ==
    /\ find(book, n) # None
    /\ LET r == Record_add_birthday(find(book, n)[1], text) IN
       /\ book' = Mutate(book, n, r.rec)
       /\ Returned("add_birthday", <<n, text>>, r.exc, r.msg)

\* book.add_record(Record(n))
CallAddRecord(n) ==
    /\ book' = add_record(book, Record(n))
    /\ Returned("add_record", <<n>>, "", None)

\* book.find(n)
CallFind(n) ==
    /\ book' = book
    /\ Returned("find", <<n>>, "", find(book, n))

\* book.delete(n)
CallDelete(n) ==
    /\ book' = delete(book, n).data
    /\ Returned("delete", <<n>>, delete(book, n).exc, None)

(***************************************************************************)
(* AddressBook.get_upcoming_birthdays.                                     *)
(***************************************************************************)
MsgDayOutOfRange == <<"day is out of range for month">>

MsgYearOutOfRange(y) == <<"year ", y, " is out of range">>

MsgDateValueOutOfRange == <<"date value out of range">>

MsgDaysMagnitude(days) == <<"days=", days, "; must have magnitude <= 999999999">>

MsgTooLargeForCInt == <<"Python int too large to convert to C int">>

ShiftOneDay(occ) ==
    IF Weekday(occ) = 5 THEN occ + 1
    ELSE IF Weekday(occ) = 6 THEN occ + 1
    ELSE occ

\* the weekend is moved to Monday
Shift(occ) ==
    IF Weekday(occ) = 5 THEN occ + 2
    ELSE IF Weekday(occ) = 6 THEN occ + 1
    ELSE occ

\* current_date <= birthday_this_year <= current_date + congratulation_period
InPeriod(t, occ, days) == t <= occ /\ occ <= t + days

\* one line of the result
Line(name, occ) == [name |-> name, birthday |-> strftime(FromOrdinal(Shift(occ)))]

\* the loop over self.data, from item i on, with the result so far
RECURSIVE UpcomingLoop(_, _, _, _, _)
UpcomingLoop(data, i, result, days, today) ==
    IF i > Len(data) THEN [exc |-> "", ret |-> result]
    ELSE LET contact == data[i].rec
             bd == contact.birthday
             t == Ordinal(today)
             Step(occ) ==
                 IF ~DateInRange(t + days)
                 THEN [exc |-> "OverflowError", ret |-> MsgDateValueOutOfRange]
                 ELSE UpcomingLoop(data, i + 1,
                                   IF InPeriod(t, occ, days)
                                   THEN Append(result, Line(contact.name, occ))
                                   ELSE result,
                                   days, today)
             Raise == [exc |-> "ValueError", ret |-> MsgDayOutOfRange]
         IN  IF bd = None THEN UpcomingLoop(data, i + 1, result, days, today)
             ELSE IF ~DateValid(today[1], bd[2], bd[3]) THEN Raise
             ELSE IF t > Ordinal(<<today[1], bd[2], bd[3]>>)
                  THEN IF today[1] + 1 > 9999
                       THEN [exc |-> "ValueError", ret |-> MsgYearOutOfRange(today[1] + 1)]
                       ELSE IF ~DateValid(today[1] + 1, bd[2], bd[3]) THEN Raise
                       ELSE Step(Ordinal(<<today[1] + 1, bd[2], bd[3]>>))
                  ELSE Step(Ordinal(<<today[1], bd[2], bd[3]>>))

\* timedelta(days), then the loop; days is a Python int.  timedelta first
\* converts days to a C int, then tests its magnitude.  The shifted date is
\* in range whenever the loop reaches it: 9999-12-31 is a Friday.
get_upcoming_birthdays(data, days, today) ==
    IF ~days.c_int
    THEN [exc |-> "OverflowError", ret |-> MsgTooLargeForCInt]
    ELSE IF ~TimedeltaOk(days.val)
    THEN [exc |-> "OverflowError", ret |-> MsgDaysMagnitude(days.val)]
    ELSE UpcomingLoop(data, 1, <<>>, days.val, today)

\* book.get_upcoming_birthdays(days) on the day today
CallGetUpcomingBirthdays(days, today) ==
    /\ book' = book
    /\ LET r == get_upcoming_birthdays(book, days, today) IN
       Returned("get_upcoming_birthdays", <<days, today>>, r.exc, r.ret)

(***************************************************************************)
(* The command handlers and input_error.                                   *)
(***************************************************************************)
MsgUnpack(n) == <<"not enough values to unpack (expected at least 2, got ", n, ")">>

MsgAdded == <<"Contact added.">>

MsgUpdated == <<"Contact updated.">>

MsgChanged == <<"Contact changed.">>

MsgBirthdayAdded == <<"Birthday added.">>

MsgKeyError == <<"Contact not found. Give correct name, Please.">>

MsgIndexError == <<"Contact not found.">>

MsgBothNeeded == <<"Please provide both name and birthday.">>

MsgNoBirthdays == <<"No birthdays next week">>

MsgFetchError == <<"Error in fetching birthdays">>

\* what a handler body does: the book after it, the exception leaving it
\* (with str(e) in ret) or the value it returns
Outcome(data, exc, ret) == [data |-> data, exc |-> exc, ret |-> ret]

\* the decorator: the exception becomes the returned message
input_error(r) ==
    IF r.exc = "KeyError" THEN Outcome(r.data, "", MsgKeyError)
    ELSE IF r.exc = "ValueError" THEN Outcome(r.data, "", r.ret)
    ELSE IF r.exc = "IndexError" THEN Outcome(r.data, "", MsgIndexError)
    ELSE r

WithPhones(data, name, phones) ==
    Mutate(data, name, [data[IndexOf(data, name)].rec EXCEPT !.phones = phones])

add_contact(args, data) ==
    IF Len(args) < 2 THEN Outcome(data, "ValueError", MsgUnpack(Len(args)))
    ELSE LET name == args[1]
             phone == args[2]
             isNew == find(data, name) = None
             d1 == IF isNew THEN add_record(data, Record(name)) ELSE data
             message == IF isNew THEN MsgAdded ELSE MsgUpdated
             r == add_phone(PhonesOf(d1, name), phone)
         IN  IF phone # <<>>
             THEN IF r.exc = ""
                  THEN Outcome(WithPhones(d1, name, r.phones), "", message)
                  ELSE Outcome(d1, r.exc, r.msg)
             ELSE Outcome(d1, "", message)

change_contact(args, data) ==
    IF Len(args) < 2 THEN Outcome(data, "ValueError", MsgUnpack(Len(args)))
    ELSE LET name == args[1]
             new_phone == args[2]
             d1 == WithPhones(data, name, <<>>)
             r == add_phone(<<>>, new_phone)
         IN  IF find(data, name) # None
             THEN IF r.exc = ""
                  THEN Outcome(WithPhones(d1, name, r.phones), "", MsgChanged)
                  ELSE Outcome(d1, r.exc, r.msg)
             ELSE Outcome(data, "KeyError", None)

add_birthday(args, data) ==
    IF Len(args) >= 2
    THEN LET name == args[1]
             birthday == args[2]
             r == Record_add_birthday(find(data, name)[1], birthday)
         IN  IF find(data, name) # None
             THEN IF r.exc = ""
                  THEN Outcome(Mutate(data, name, r.rec), "", MsgBirthdayAdded)
                  ELSE Outcome(data, r.exc, r.msg)
             ELSE Outcome(data, "KeyError", None)
    ELSE Outcome(data, "ValueError", MsgBothNeeded)

\* int(text) of a token without white space: an optional sign and decimal
\* digits, single underscores allowed between digits
IntBody(t) ==
    /\ Len(t) >= 1
    /\ \A i \in 1..Len(t) : IsDecimal(t[i]) \/ t[i] = 95
    /\ t[1] # 95
    /\ t[Len(t)] # 95
    /\ \A i \in 1..(Len(t) - 1) : ~(t[i] = 95 /\ t[i + 1] = 95)

Unsigned(t) == IF t # <<>> /\ t[1] \in {43, 45} THEN Tail(t) ELSE t

\* the digits of a text, underscores left out
IsNotUnderscore(c) == c # 95

DigitsOf(t) == SelectSeq(Unsigned(t), IsNotUnderscore)

\* int() refuses a text of more digits than this (the interpreter's default
\* limit of integer string conversion); leading zeros count, the sign and
\* underscores do not
MaxStrDigits == 4300

\* int(t) does not raise ValueError
IntOk(t) == IntBody(Unsigned(t)) /\ Len(DigitsOf(t)) <= MaxStrDigits

\* the digits from the first that is not a zero
Significant(d) ==
    IF \A i \in 1..Len(d) : d[i] = 48 THEN <<>>
    ELSE LET k == CHOOSE i \in 1..Len(d) : d[i] # 48 /\ \A j \in 1..(i - 1) : d[j] = 48
         IN  SubSeq(d, k, Len(d))

\* digit texts of one length: a is at most b
DigitsLeq(a, b) ==
    \/ a = b
    \/ \E i \in 1..Len(a) : a[i] < b[i] /\ \A j \in 1..(i - 1) : a[j] = b[j]

\* the digits of 2^31 - 1 and of 2^31
CIntMaxDigits == <<50, 49, 52, 55, 52, 56, 51, 54, 52, 55>>

CIntMinDigits == <<50, 49, 52, 55, 52, 56, 51, 54, 52, 56>>

\* the number a C int holds: -2^31 .. 2^31 - 1
FitsCInt(t) ==
    LET d == Significant(DigitsOf(t)) IN
    \/ Len(d) < 10
    \/ Len(d) = 10 /\ DigitsLeq(d, IF t[1] = 45 THEN CIntMinDigits ELSE CIntMaxDigits)

\* the number of the digits d, counted below zero when neg
RECURSIVE IntDigits(_, _)
IntDigits(d, neg) ==
    IF d = <<>> THEN 0
    ELSE IF neg THEN IntDigits(SubSeq(d, 1, Len(d) - 1), neg) * 10 - (d[Len(d)] - 48)
    ELSE IntDigits(SubSeq(d, 1, Len(d) - 1), neg) * 10 + (d[Len(d)] - 48)

\* int(t) of a text that int() accepts
IntValue(t) ==
    IF FitsCInt(t) THEN PyInt(IntDigits(Significant(DigitsOf(t)), t[1] = 45))
    ELSE TooLarge(t[1] = 45)

birthdays(args, data, today) ==
    IF args # <<>> /\ ~IntOk(args[1]) THEN Outcome(data, "", MsgFetchError)
    ELSE LET days == IF args # <<>> THEN IntValue(args[1]) ELSE PyInt(7)
             r == get_upcoming_birthdays(data, days, today)
         IN  IF r.exc \in {"AttributeError", "ValueError", "IndexError"}
             THEN Outcome(data, "", MsgFetchError)
             ELSE IF r.exc # "" THEN Outcome(data, r.exc, r.ret)
             ELSE IF Len(r.ret) = 0 THEN Outcome(data, "", MsgNoBirthdays)
             ELSE Outcome(data, "", <<"lines", r.ret>>)

\* print(add_contact(args, book))
CmdAddContact(args, cap) ==
    LET r == input_error(add_contact(args, book)) IN
    /\ \A i \in 1..Len(r.data) : Len(r.data[i].rec.phones) <= cap
    /\ book' = r.data
    /\ Returned("add", args, r.exc, r.ret)

\* print(change_contact(args, book))
CmdChangeContact(args) ==
    LET r == input_error(change_contact(args, book)) IN
    /\ book' = r.data
    /\ Returned("change", args, r.exc, r.ret)

\* print(add_birthday(args, book))
CmdAddBirthday(args) ==
    LET r == input_error(add_birthday(args, book)) IN
    /\ book' = r.data
    /\ Returned("add-birthday", args, r.exc, r.ret)

\* print(birthdays(args, book)) on the day today
CmdBirthdays(args, today) ==
    LET r == input_error(birthdays(args, book, today)) IN
    /\ book' = r.data
    /\ Returned("birthdays", <<args, today>>, r.exc, r.ret)

(***************************************************************************)
(* Specification of one record: the Record methods on the phones of a      *)
(* single contact; prev keeps the call before the last one.                *)
(***************************************************************************)
TheName == "ann"

InitRecord ==
    /\ book = add_record(<<>>, Record(TheName))
    /\ pre = <<>>
    /\ last = NoCall
    /\ prev = NoHistory

Remember == prev' = [call |-> last, pre |-> pre]

RAddPhone == \E p \in PhoneTexts : CallAddPhone(TheName, p, MaxPhones) /\ Remember

RRemovePhone == \E p \in PhoneTexts : CallRemovePhone(TheName, p) /\ Remember

REditPhone == \E old, new \in PhoneTexts : CallEditPhone(TheName, old, new) /\ Remember

RFindPhone == \E p \in PhoneTexts : CallFindPhone(TheName, p) /\ Remember

NextRecord == RAddPhone \/ RRemovePhone \/ REditPhone \/ RFindPhone

SpecRecord == InitRecord /\ [][NextRecord]_vars

(***************************************************************************)
(* Specification of the book: the AddressBook methods, the Record methods  *)
(* on the phones of the records it holds and the add and change commands.  *)
(* The book starts as load_data returns it: empty when no file exists,     *)
(* else the book that an earlier run saved.                                *)
(***************************************************************************)
Names == {"ann", "bob"}

\* addressbook.pkl: absent, or the pickled book
NoFile == [exists |-> FALSE, book |-> <<>>]

Saved(data) == [exists |-> TRUE, book |-> data]

\* save_data: pickle.dump keeps the items, their order and the records
save_data(data) == Saved(data)

\* load_data: pickle.load(f), or AddressBook() on FileNotFoundError
load_data(file) == IF file.exists THEN file.book ELSE <<>>

\* the files main of the book specification may start from: none, and the
\* books saved after "add ann 1111111111" and after "add bob" of ten
\* superscript twos followed by "add ann" with a rejected phone
Files ==
    {NoFile,
     save_data(<<Entry("ann", [Record("ann") EXCEPT !.phones = <<P1>>])>>),
     save_data(<<Entry("bob", [Record("bob") EXCEPT !.phones = <<PSup>>]),
                 Entry("ann", Record("ann"))>>)}

\* the argument lists of add and change: none, a name, a name and a phone
\* (also the empty text)
PhoneArgs ==
    {<<>>} \cup {<<n>> : n \in Names}
           \cup {<<n, p>> : n \in Names, p \in BookPhoneTexts \cup {<<>>}}

Init ==
    /\ \E file \in Files : book = load_data(file)
    /\ pre = <<>>
    /\ last = NoCall
    /\ prev = NoHistory

AddRecord == \E n \in Names : CallAddRecord(n) /\ UNCHANGED prev

Find == \E n \in Names : CallFind(n) /\ UNCHANGED prev

Delete == \E n \in Names : CallDelete(n) /\ UNCHANGED prev

AddPhone ==
    \E n \in Names, p \in BookPhoneTexts :
        CallAddPhone(n, p, MaxBookPhones) /\ UNCHANGED prev

RemovePhone ==
    \E n \in Names, p \in BookPhoneTexts : CallRemovePhone(n, p) /\ UNCHANGED prev

EditPhone ==
    \E n \in Names, old, new \in BookPhoneTexts :
        CallEditPhone(n, old, new) /\ UNCHANGED prev

AddCommand == \E args \in PhoneArgs : CmdAddContact(args, MaxBookPhones) /\ UNCHANGED prev

ChangeCommand == \E args \in PhoneArgs : CmdChangeContact(args) /\ UNCHANGED prev

Next ==
    \/ AddRecord
    \/ Find
    \/ Delete
    \/ AddPhone
    \/ RemovePhone
    \/ EditPhone
    \/ AddCommand
    \/ ChangeCommand

Spec == Init /\ [][Next]_vars

(***************************************************************************)
(* Specification of the birthdays: records added to the book, their        *)
(* birthdays set by Record.add_birthday and by the add-birthday command,   *)
(* get_upcoming_birthdays and the birthdays command on a given day.        *)
(***************************************************************************)
\* longest congratulation period asked of get_upcoming_birthdays
MaxDays == 5

\* 10.06.2024 is a Monday; 28.12.2023 is near the end of a year; 27.02.2023
\* is in a year without 29 February; 01.03.2024 follows a 29 February.
Todays == {<<2024, 6, 10>>, <<2023, 12, 28>>, <<2023, 2, 27>>, <<2024, 3, 1>>}

\* Birthday texts: 10.06 (a Monday in 2024), 15.06 (a Saturday), 16.06 (a
\* Sunday), 01.01, 29.02, and the invalid 29.02.2001.
BirthdayTexts ==
    {strftime(<<2000, 6, 10>>), strftime(<<1990, 6, 15>>), strftime(<<1985, 6, 16>>),
     strftime(<<2000, 1, 1>>), strftime(<<2000, 2, 29>>), strftime(<<2001, 2, 29>>)}

\* the argument lists of add-birthday: none, a name, a name and "15.06.1990"
\* or the invalid "31.04.2000"
BirthdayArgs ==
    {<<>>} \cup {<<n>> : n \in Names}
           \cup {<<n, b>> : n \in Names,
                            b \in {strftime(<<1990, 6, 15>>), strftime(<<2000, 4, 31>>)}}

\* the argument lists of birthdays: none, "5", "x", "3000000", "2147483648"
DaysArgs ==
    {<<>>, <<<<53>>>>, <<<<120>>>>, <<<<51, 48, 48, 48, 48, 48, 48>>>>, <<CIntMinDigits>>}

\* periods that date arithmetic cannot hold: past 9999-12-31 from any day of
\* Todays, before 0001-01-01, and more than timedelta holds
HugeDays == {3000000, 0 - 800000, 1000000000}

\* the files main of the birthday specification may start from: none, and
\* the book saved after "add ann" with a rejected phone (the contact is kept
\* without phones) and "add-birthday ann 15.06.1990"
BirthdayFiles ==
    {NoFile,
     save_data(<<Entry("ann", [Record("ann") EXCEPT !.birthday = <<1990, 6, 15>>])>>)}

InitBirthdays ==
    /\ \E file \in BirthdayFiles : book = load_data(file)
    /\ pre = <<>>
    /\ last = NoCall
    /\ prev = NoHistory

BAddRecord == \E n \in Names : CallAddRecord(n) /\ UNCHANGED prev

BSetBirthday ==
    \E n \in Names, b \in BirthdayTexts : CallAddBirthday(n, b) /\ UNCHANGED prev

BAddBirthdayCommand == \E args \in BirthdayArgs : CmdAddBirthday(args) /\ UNCHANGED prev

BGetUpcomingBirthdays ==
    \E days \in {PyInt(d) : d \in ((0 - 1)..MaxDays) \cup HugeDays} \cup {TooLarge(FALSE)},
       today \in Todays :
        CallGetUpcomingBirthdays(days, today) /\ UNCHANGED prev

BBirthdaysCommand ==
    \E args \in DaysArgs, today \in Todays : CmdBirthdays(args, today) /\ UNCHANGED prev

NextBirthdays ==
    \/ BAddRecord
    \/ BSetBirthday
    \/ BAddBirthdayCommand
    \/ BGetUpcomingBirthdays
    \/ BBirthdaysCommand

SpecBirthdays == InitBirthdays /\ [][NextBirthdays]_vars

(***************************************************************************)
(* Properties of the Record methods (checked under SpecRecord).            *)
(***************************************************************************)
Count(s, x) == Cardinality({i \in 1..Len(s) : s[i] = x})

Holds(s, x) == \E i \in 1..Len(s) : s[i] = x

\* the phones of the record before and after the last call
Before == PhonesOf(pre, TheName)

After == PhonesOf(book, TheName)

TenDigitsError == last.exc = "ValueError" /\ last.ret = MsgTenDigits

NotFoundError(phone) == last.exc = "ValueError" /\ last.ret = MsgNotFound(phone)

\* C1 (as claimed): edit_phone removes one oldPhone and appends newPhone
\* only when oldPhone is present and newPhone is valid; with oldPhone present
\* and newPhone invalid it fails with the validation error and the phones
\* are as before the call; with oldPhone absent it fails with the not-found
\* error and the phones are as before the call.
C1_EditPhoneAllOrNothing ==
    last.op = "edit_phone" =>
        LET old == last.args[2]
            new == last.args[3]
        IN  /\ (Holds(Before, old) /\ PhoneOk(new)) =>
                   /\ last.exc = ""
                   /\ After = Append(RemoveAt(Before, FirstIndex(Before, old)), new)
            /\ (Holds(Before, old) /\ ~PhoneOk(new)) =>
                   /\ TenDigitsError
                   /\ After = Before
            /\ ~Holds(Before, old) =>
                   /\ NotFoundError(old)
                   /\ After = Before

\* the last two calls were add_phone(p), accepted, and then remove_phone(p)
AddThenRemove ==
    /\ prev.call.op = "add_phone"
    /\ prev.call.exc = ""
    /\ last.op = "remove_phone"
    /\ last.args = prev.call.args

\* the phones of the record before the add_phone of an AddThenRemove
Prior == PhonesOf(prev.pre, TheName)

RemoveAbsentFails ==
    (last.op = "remove_phone" /\ ~Holds(Before, last.args[2])) =>
        /\ NotFoundError(last.args[2])
        /\ After = Before

\* C2 (as claimed): for every record, also one that already holds p,
\* add_phone(p) followed by remove_phone(p) gives back exactly the prior
\* phone sequence; remove_phone of a phone not in the record fails with the
\* not-found error.
C2_RoundTripAlways ==
    /\ AddThenRemove => (last.exc = "" /\ After = Prior)
    /\ RemoveAbsentFails

\* C2 (amended): add_phone(p) followed by remove_phone(p) gives back the
\* prior phone sequence when the record did not hold p before; when it did,
\* the result is the prior sequence with its first p removed and p appended
\* at the end; remove_phone of a phone not in the record fails with the
\* not-found error and changes nothing.
C2_RoundTrip ==
    /\ AddThenRemove =>
          LET p == last.args[2] IN
          /\ last.exc = ""
          /\ ~Holds(Prior, p) => After = Prior
          /\ Holds(Prior, p) =>
                 After = Append(RemoveAt(Prior, FirstIndex(Prior, p)), p)
    /\ RemoveAbsentFails

\* a round trip on a record that held another phone and not p
C2_Witness ==
    /\ AddThenRemove
    /\ Len(Prior) >= 1
    /\ ~Holds(Prior, last.args[2])
    /\ After = Prior

\* C9: after a successful edit_phone(old, new) with new # old there is one
\* old fewer and one new more, the length is unchanged and the other
\* entries keep their relative order (the phones are the previous ones with
\* one old taken out and new put at the end); a record holding old once and
\* no new ends with exactly one new and no old.
C9_EditPhoneCounts ==
    (last.op = "edit_phone" /\ last.exc = "" /\ last.args[2] # last.args[3]) =>
        LET old == last.args[2]
            new == last.args[3]
        IN  /\ Count(After, old) = Count(Before, old) - 1
            /\ Count(After, new) = Count(Before, new) + 1
            /\ Len(After) = Len(Before)
            /\ \E i \in 1..Len(Before) :
                   /\ Before[i] = old
                   /\ After = Append(RemoveAt(Before, i), new)
            /\ (Count(Before, old) = 1 /\ Count(Before, new) = 0) =>
                   (Count(After, new) = 1 /\ Count(After, old) = 0)

\* a successful edit of a phone the record held twice, next to another one
C9_Witness ==
    /\ last.op = "edit_phone"
    /\ last.exc = ""
    /\ last.args[2] # last.args[3]
    /\ Count(Before, last.args[2]) = 2
    /\ Len(Before) = 3
    /\ Count(After, last.args[2]) = 1

(***************************************************************************)
(* Properties of the book (checked under Spec).                            *)
(***************************************************************************)
\* C6 (as claimed): every phone stored in a record is a text of exactly
\* 10 characters, each of them a decimal digit.
C6_PhonesAreTenDecimalDigits ==
    \A i \in 1..Len(book) :
        \A k \in 1..Len(book[i].rec.phones) :
            LET phone == book[i].rec.phones[k] IN
            /\ Len(phone) = 10
            /\ \A c \in 1..Len(phone) : phone[c] \in DecimalChars

\* C7: every key is the name of the record it maps to, no key occurs twice,
\* and add_record of a record whose name is already a key puts the new
\* record in the place of the old one without adding an entry.
C7_KeysAreNames ==
    /\ \A i \in 1..Len(book) : book[i].key = book[i].rec.name
    /\ \A i, j \in 1..Len(book) : book[i].key = book[j].key => i = j
    /\ (last.op = "add_record" /\ last.args[1] \in Keys(pre)) =>
           /\ Len(book) = Len(pre)
           /\ find(book, last.args[1]) = <<Record(last.args[1])>>
           /\ \A i \in 1..Len(pre) :
                  pre[i].key # last.args[1] => book[i] = pre[i]

\* add_record replaced a record that held a phone, next to another record
C7_Witness ==
    /\ last.op = "add_record"
    /\ Len(pre) = 2
    /\ last.args[1] \in Keys(pre)
    /\ PhonesOf(pre, last.args[1]) # <<>>
    /\ PhonesOf(book, last.args[1]) = <<>>

\* C8: delete of a name that is no key fails with KeyError and leaves the
\* book as it was; delete of a key removes that entry and no other; find of
\* a name that is no key returns None, without error and without change.
C8_DeleteAndFind ==
    /\ (last.op = "delete" /\ last.args[1] \notin Keys(pre)) =>
           /\ last.exc = "KeyError"
           /\ book = pre
    /\ (last.op = "delete" /\ last.args[1] \in Keys(pre)) =>
           /\ last.exc = ""
           /\ Len(book) = Len(pre) - 1
           /\ book = SelectSeq(pre, LAMBDA e : e.key # last.args[1])
    /\ (last.op = "find" /\ last.args[1] \notin Keys(pre)) =>
           /\ last.exc = ""
           /\ last.ret = None
           /\ book = pre

\* delete removed the second of two records; the first one holds a phone
C8_Witness ==
    /\ last.op = "delete"
    /\ last.exc = ""
    /\ Len(pre) = 2
    /\ pre[2].key = last.args[1]
    /\ Len(book) = 1
    /\ book[1].rec.phones # <<>>

\* C10 (as claimed): an add, change or add-birthday command that answers
\* with an error message instead of its success message leaves the book as
\* it was before the command.
C10_FailedCommandChangesNothing ==
    (/\ last.op \in {"add", "change", "add-birthday"}
     /\ last.ret \notin {MsgAdded, MsgUpdated, MsgChanged, MsgBirthdayAdded}) =>
        book = pre

(***************************************************************************)
(* Properties of the birthdays (checked under SpecBirthdays).              *)
(***************************************************************************)
\* the lines, the period and the day of the last query
Lines ==
    IF last.op = "get_upcoming_birthdays" /\ last.exc = "" THEN last.ret
    ELSE IF last.op = "birthdays" /\ last.exc = "" /\ Len(last.ret) = 2 THEN last.ret[2]
    ELSE <<>>

\* the period as a number; one that a C int does not hold counts as a
\* period longer than a year, or as a negative one
PeriodOf(days) ==
    IF days.c_int THEN days.val ELSE IF days.neg THEN 0 - 1 ELSE 1000000000

QueryDays ==
    IF last.op = "get_upcoming_birthdays" THEN PeriodOf(last.args[1])
    ELSE IF last.args[1] = <<>> THEN 7
    ELSE PeriodOf(IntValue(last.args[1][1]))

QueryToday == Ordinal(last.args[2])

IsReported(name) == \E k \in 1..Len(Lines) : Lines[k].name = name

\* the earliest date with the month and day of bd on or after the day today
NextOccurrence(bd, today) ==
    LET years == {y \in today[1]..(today[1] + 8) :
                      /\ DateValid(y, bd[2], bd[3])
                      /\ Ordinal(<<y, bd[2], bd[3]>>) >= Ordinal(today)}
        year == CHOOSE y \in years : \A z \in years : y <= z
    IN  Ordinal(<<year, bd[2], bd[3]>>)

InWindow(rec) ==
    /\ rec.birthday # None
    /\ QueryToday <= NextOccurrence(rec.birthday, last.args[2])
    /\ NextOccurrence(rec.birthday, last.args[2]) <= QueryToday + QueryDays

\* C3 (as claimed): for every book, day and period >= 0,
\* get_upcoming_birthdays reports a record iff it has a birthday whose next
\* occurrence on or after today is within [today, today + period].
C3_ReportedIffInWindow ==
    (last.op = "get_upcoming_birthdays" /\ QueryDays >= 0) =>
        \A i \in 1..Len(book) :
            IsReported(book[i].rec.name) <=> InWindow(book[i].rec)

\* C4: every reported date is the occurrence itself when that is a Monday
\* to Friday, the occurrence plus 2 days when it is a Saturday, plus 1 day
\* when it is a Sunday; it is never a Saturday or Sunday and lies in
\* [today, today + period + 2].
C4_ReportedDateShifted ==
    \A k \in 1..Len(Lines) :
        LET rec == find(book, Lines[k].name)[1]
            occ == NextOccurrence(rec.birthday, last.args[2])
            reported == IF Weekday(occ) = 5 THEN occ + 2
                        ELSE IF Weekday(occ) = 6 THEN occ + 1
                        ELSE occ
        IN  /\ Lines[k].birthday = strftime(FromOrdinal(reported))
            /\ Weekday(reported) \notin {5, 6}
            /\ QueryToday <= reported
            /\ reported <= QueryToday + QueryDays + 2

\* a birthday on the Saturday at the end of the period is reported for the
\* Monday two days after the period
C4_Witness ==
    /\ last.op = "get_upcoming_birthdays"
    /\ \E k \in 1..Len(Lines) :
           LET rec == find(book, Lines[k].name)[1]
               occ == NextOccurrence(rec.birthday, last.args[2])
           IN  /\ Weekday(occ) = 5
               /\ occ = QueryToday + QueryDays
               /\ Lines[k].birthday = strftime(FromOrdinal(occ + 2))

\* the year in which the code looks for the birthday bd has no such date
NoDateInCandidateYear(bd, today) ==
    \/ ~DateValid(today[1], bd[2], bd[3])
    \/ /\ Ordinal(today) > Ordinal(<<today[1], bd[2], bd[3]>>)
       /\ ~DateValid(today[1] + 1, bd[2], bd[3])

\* C5 (as claimed): get_upcoming_birthdays returns a result for every book
\* and every day; a record whose birthday has no date in the candidate year
\* is skipped and the other records are reported as usual; the birthdays
\* command, given a number of days, does not answer with the fetch error.
C5_AlwaysReturns ==
    /\ last.op = "get_upcoming_birthdays" =>
           /\ last.exc = ""
           /\ \A i \in 1..Len(book) :
                  LET rec == book[i].rec IN
                  IF rec.birthday # None /\ NoDateInCandidateYear(rec.birthday, last.args[2])
                  THEN ~IsReported(rec.name)
                  ELSE QueryDays >= 0 => (IsReported(rec.name) <=> InWindow(rec))
    /\ (last.op = "birthdays"
        /\ (last.args[1] = <<>> \/ IntBody(Unsigned(last.args[1][1])))) =>
           /\ last.exc = ""
           /\ last.ret # MsgFetchError

====
